---- MODULE Spec2Model ----
(***************************************************************************)
(* The Tower of Hanoi (src/main.cpp): the peg (HanoiTower), the board      *)
(* (TheTowerOfHanoi) and the controller loop (TheTowerOfHanoiGame::run).   *)
(*                                                                         *)
(* A peg is the sequence held by its std::stack, in storage order: the    *)
(* base is element 1 and the top is the last element.  Strings (peg names, *)
(* input lines) are sequences of one-character strings, so that parse      *)
(* really splits a line.                                                   *)
(***************************************************************************)
EXTENDS Integers, Sequences, FiniteSets, TLC

VARIABLES
    m_towerMap,   \* TheTowerOfHanoi::m_towerMap: peg name -> peg
    m_running,    \* TheTowerOfHanoiGame::m_running
    m_input,      \* TheTowerOfHanoiGame::m_input: the line read last
    m_lastOp,     \* TheTowerOfHanoiGame::m_lastOp: [command, from, to]
    pc,           \* position of main: "constructed", "running", "returned"
    last,         \* history: the call or loop iteration made last
    prev,         \* history: the call of move made before last, kept
                  \* where the board is used directly
    lastMove,     \* history: the last successful move command, the number
                  \* of /undo commands processed since, and whether any
                  \* other line was processed since
    classic       \* history: how many calls of move were made, when they
                  \* are the first moves of the classic solution on a
                  \* board of three disks; Off otherwise

vars == <<m_towerMap, m_running, m_input, m_lastOp, pc, last, prev, lastMove,
          classic>>

(***************************************************************************)
(* Bounds of the model.                                                    *)
(***************************************************************************)
MaxDisks == 3      \* the initial disk count n ranges over 0..MaxDisks
MaxUndoRun == 3    \* /undo commands counted after one move command

(***************************************************************************)
(* Strings.                                                                *)
(***************************************************************************)
EmptyString == <<>>
PegA == <<"a">>
PegB == <<"b">>
PegC == <<"c">>
PegD == <<"d">>     \* a name no peg of the game has

\* The names a caller passes to the board: the three pegs and a missing one.
NameInputs == {PegA, PegB, PegC, PegD}

(***************************************************************************)
(* HanoiTower: the peg.                                                    *)
(***************************************************************************)
HanoiTower == <<>>

\* HanoiTower(const adapter_type& stack): the peg is a copy of the stack,
\* whatever the order of its elements.
HanoiTowerFrom(stack) == stack

empty(s) == Len(s) = 0

size(s) == Len(s)

top_base(s) == s[1]

\* std::stack::top: the last element of the storage. Only called on a
\* non-empty peg by the code modelled here.
top(s) == s[Len(s)]

placeable_always(s, element) == TRUE

placeable(s, element) == empty(s) \/ top(s) > element

push_unchecked(s, element) == [stack |-> Append(s, element), ok |-> TRUE]

push(s, element) ==
    IF placeable(s, element)
    THEN [stack |-> Append(s, element), ok |-> TRUE]
    ELSE [stack |-> s, ok |-> FALSE]

\* HanoiTower::emplace: the element is built from the argument, then as
\* push.
emplace(s, arg) ==
    LET element == arg
    IN  IF placeable(s, element)
        THEN [stack |-> Append(s, element), ok |-> TRUE]
        ELSE [stack |-> s, ok |-> FALSE]

pop_nothing(s) == s

pop_base(s) == SubSeq(s, 2, Len(s))

\* std::stack::pop: drops the last element of the storage.
pop(s) == SubSeq(s, 1, Len(s) - 1)

(***************************************************************************)
(* TheTowerOfHanoi: the board.                                             *)
(***************************************************************************)
TheTowerOfHanoi == <<>>      \* the empty map

has(map, name) == name \in DOMAIN map

create_overwrite(map, name) ==
    [map |-> (name :> HanoiTower) @@ map, ok |-> name \notin DOMAIN map]

\* unordered_map::insert: inserts an empty peg unless the key exists.
create(map, name) ==
    IF name \in DOMAIN map
    THEN [map |-> map, ok |-> FALSE]
    ELSE [map |-> (name :> HanoiTower) @@ map, ok |-> TRUE]

RECURSIVE pushInitial_stopsEarly(_, _)
pushInitial_stopsEarly(s, i) ==
    IF i > 1
    THEN LET pushed == push(s, i)
         IN  IF ~pushed.ok
             THEN [stack |-> pushed.stack, ok |-> FALSE]
             ELSE pushInitial_stopsEarly(pushed.stack, i - 1)
    ELSE [stack |-> s, ok |-> TRUE]

\* The initializer lambda of TheTowerOfHanoiGame(initial): pushes
\* initial, initial-1, ..., 1 and stops at the first push that fails.
RECURSIVE pushInitial(_, _)
pushInitial(s, i) ==
    IF i > 0
    THEN LET pushed == push(s, i)
         IN  IF ~pushed.ok
             THEN [stack |-> pushed.stack, ok |-> FALSE]
             ELSE pushInitial(pushed.stack, i - 1)
    ELSE [stack |-> s, ok |-> TRUE]

\* create(name, onSuccess) with the initializer above.
createInitial(map, name, initial) ==
    LET result == create(map, name)
    IN  IF result.ok
        THEN LET filled == pushInitial(result.map[name], initial)
             IN  [map |-> [result.map EXCEPT ![name] = filled.stack],
                  ok |-> filled.ok]
        ELSE result

\* An initializer handed to create(name, onSuccess), of the shape of the one
\* above: it pushes the disks of a list in order and reports failure at the
\* first disk the peg refuses.
RECURSIVE pushEach(_, _)
pushEach(s, disks) ==
    IF Len(disks) > 0
    THEN LET pushed == push(s, Head(disks))
         IN  IF ~pushed.ok
             THEN [stack |-> pushed.stack, ok |-> FALSE]
             ELSE pushEach(pushed.stack, Tail(disks))
    ELSE [stack |-> s, ok |-> TRUE]

createWith_rollback(map, name, disks) ==
    LET result == create(map, name)
    IN  IF result.ok
        THEN LET filled == pushEach(result.map[name], disks)
             IN  IF filled.ok
                 THEN [map |-> [result.map EXCEPT ![name] = filled.stack],
                       ok |-> TRUE, ran |-> TRUE]
                 ELSE [map |-> map, ok |-> FALSE, ran |-> TRUE]
        ELSE [map |-> result.map, ok |-> FALSE, ran |-> FALSE]

\* create(name, onSuccess) with such an initializer; ran tells whether the
\* initializer was called.
createWith(map, name, disks) ==
    LET result == create(map, name)
    IN  IF result.ok
        THEN LET filled == pushEach(result.map[name], disks)
             IN  [map |-> [result.map EXCEPT ![name] = filled.stack],
                  ok |-> filled.ok, ran |-> TRUE]
        ELSE [map |-> result.map, ok |-> FALSE, ran |-> FALSE]

\* The outcome of a call of move: the board afterwards, the value returned,
\* the error raised by select (unordered_map::at) if any, and whether top()
\* or pop() was reached with the source peg empty.
MoveOutcome(map, ok, fault, emptyAccess) ==
    [map |-> map, ok |-> ok, fault |-> fault, emptyAccess |-> emptyAccess]

moveDistinct_popAlways(map, fromName, toName) ==
    IF ~has(map, fromName) \/ ~has(map, toName)
    THEN MoveOutcome(map, FALSE, "out_of_range", FALSE)
    ELSE LET from == map[fromName]
             to == map[toName]
         IN  IF empty(from)
             THEN MoveOutcome(map, FALSE, "none", FALSE)
             ELSE LET pushed == push(to, top(from))
                  IN  MoveOutcome([map EXCEPT ![toName] = pushed.stack,
                                              ![fromName] = pop(from)],
                                  pushed.ok, "none", empty(from))

moveDistinct_noEmptyCheck(map, fromName, toName) ==
    IF ~has(map, fromName) \/ ~has(map, toName)
    THEN MoveOutcome(map, FALSE, "out_of_range", FALSE)
    ELSE LET from == map[fromName]
             to == map[toName]
         IN  IF empty(from)
             THEN MoveOutcome(map, FALSE, "none", TRUE)
             ELSE LET pushed == push(to, top(from))
                  IN  IF pushed.ok
                      THEN MoveOutcome([map EXCEPT ![toName] = pushed.stack,
                                                  ![fromName] = pop(from)],
                                       TRUE, "none", empty(from))
                      ELSE MoveOutcome(map, FALSE, "none", empty(from))

moveDistinct_selectInserts(map, fromName, toName) ==
    LET missing == {fromName, toName} \ DOMAIN map
        all == [name \in missing |-> HanoiTower] @@ map
        from == all[fromName]
        to == all[toName]
    IN  IF empty(from)
        THEN MoveOutcome(all, FALSE, "none", FALSE)
        ELSE LET pushed == push(to, top(from))
             IN  IF pushed.ok
                 THEN MoveOutcome([all EXCEPT ![toName] = pushed.stack,
                                              ![fromName] = pop(from)],
                                  TRUE, "none", empty(from))
                 ELSE MoveOutcome(all, FALSE, "none", empty(from))

moveDistinct_reversed(map, fromName, toName) ==
    IF ~has(map, fromName) \/ ~has(map, toName)
    THEN MoveOutcome(map, FALSE, "out_of_range", FALSE)
    ELSE LET from == map[toName]
             to == map[fromName]
         IN  IF empty(from)
             THEN MoveOutcome(map, FALSE, "none", FALSE)
             ELSE LET pushed == push(to, top(from))
                  IN  IF pushed.ok
                      THEN MoveOutcome([map EXCEPT ![fromName] = pushed.stack,
                                                  ![toName] = pop(from)],
                                       TRUE, "none", empty(from))
                      ELSE MoveOutcome(map, FALSE, "none", empty(from))

\* TheTowerOfHanoi::move after the self-move test: both pegs are looked up
\* (select raises std::out_of_range on a missing name, before any peg is
\* touched), then the top disk of from is pushed on to and popped from from.
\* emptyAccess records whether from was empty where top() and pop() are
\* called.
moveDistinct(map, fromName, toName) ==
    IF ~has(map, fromName) \/ ~has(map, toName)
    THEN MoveOutcome(map, FALSE, "out_of_range", FALSE)
    ELSE LET from == map[fromName]
             to == map[toName]
         IN  IF empty(from)
             THEN MoveOutcome(map, FALSE, "none", FALSE)
             ELSE LET pushed == push(to, top(from))
                  IN  IF pushed.ok
                      THEN MoveOutcome([map EXCEPT ![toName] = pushed.stack,
                                                  ![fromName] = pop(from)],
                                       TRUE, "none", empty(from))
                      ELSE MoveOutcome(map, FALSE, "none", empty(from))

\* Without the self-move test from and to are the same peg: its own top is
\* never placeable on itself.
move_noSelfCheck(map, fromName, toName) == moveDistinct(map, fromName, toName)

\* TheTowerOfHanoi::move.
move(map, fromName, toName) ==
    IF fromName = toName
    THEN MoveOutcome(map, TRUE, "none", FALSE)
    ELSE moveDistinct(map, fromName, toName)

(***************************************************************************)
(* TheTowerOfHanoiGame: construction.                                      *)
(***************************************************************************)
\* TheTowerOfHanoiGame(initial): pegs a (filled), b and c.
TheTowerOfHanoiGame(initial) ==
    LET a == createInitial(TheTowerOfHanoi, PegA, initial)
        b == create(a.map, PegB)
        c == create(b.map, PegC)
    IN  c.map

\* m_lastOp{ .command = command_type::nop }, both names empty strings.
NoLastOp == [command |-> "nop", from |-> EmptyString, to |-> EmptyString]

\* What the history variables hold before anything happened. An entry of
\* last names the operation, its arguments (two names, and arg: the disk
\* or disks passed, if any), whether it called move (or ran the
\* initializer), the value returned, the error raised, and the board and
\* move record before it.
NoEvent ==
    [op |-> "none", from |-> EmptyString, to |-> EmptyString,
     arg |-> <<>>,
     called |-> FALSE, ok |-> FALSE, fault |-> "none", emptyAccess |-> FALSE,
     before |-> TheTowerOfHanoi, lastOpBefore |-> NoLastOp]

NoMove ==
    [exists |-> FALSE, from |-> EmptyString, to |-> EmptyString,
     before |-> TheTowerOfHanoi, after |-> TheTowerOfHanoi, undos |-> 0,
     others |-> FALSE]

\* The classic solution of the board of three disks, and the history of
\* following it: each call that is the next move of the solution counts.
ClassicMoves ==
    <<<<PegA, PegC>>, <<PegA, PegB>>, <<PegC, PegB>>, <<PegA, PegC>>,
      <<PegB, PegA>>, <<PegB, PegC>>, <<PegA, PegC>>>>

Off == -1

ClassicAfter(fromName, toName) ==
    IF /\ classic >= 0
       /\ classic < Len(ClassicMoves)
       /\ <<fromName, toName>> = ClassicMoves[classic + 1]
    THEN classic + 1
    ELSE Off

Init ==
    /\ \E initial \in 0..MaxDisks :
           /\ m_towerMap = TheTowerOfHanoiGame(initial)
           /\ classic = IF initial = 3 THEN 0 ELSE Off
    /\ m_running = FALSE
    /\ m_input = EmptyString
    /\ m_lastOp = NoLastOp
    /\ pc = "constructed"
    /\ last = NoEvent
    /\ prev = NoEvent
    /\ lastMove = NoMove

(***************************************************************************)
(* The board used directly: any sequence of calls of move.                 *)
(***************************************************************************)
CallMove(fromName, toName) ==
    LET out == move(m_towerMap, fromName, toName)
    IN  /\ pc = "constructed"
        /\ m_towerMap' = out.map
        /\ last' = [op |-> "move", from |-> fromName, to |-> toName,
                    arg |-> <<>>, called |-> TRUE, ok |-> out.ok, fault |-> out.fault,
                    emptyAccess |-> out.emptyAccess,
                    before |-> m_towerMap, lastOpBefore |-> m_lastOp]
        /\ prev' = last
        /\ classic' = ClassicAfter(fromName, toName)
        /\ UNCHANGED <<m_running, m_input, m_lastOp, pc, lastMove>>

Next == \E fromName, toName \in NameInputs : CallMove(fromName, toName)

Spec == Init /\ [][Next]_vars

(***************************************************************************)
(* main: the game is constructed, then its board is used.                  *)
(***************************************************************************)
MainInit ==
    /\ m_towerMap = TheTowerOfHanoi
    /\ m_running = FALSE
    /\ m_input = EmptyString
    /\ m_lastOp = NoLastOp
    /\ pc = "main"
    /\ last = NoEvent
    /\ prev = NoEvent
    /\ lastMove = NoMove
    /\ classic = Off

\* TheTowerOfHanoiGame game{ initial }. ok is what create returned for
\* peg a: the result of the initializer.
Construct(initial) ==
    /\ pc = "main"
    /\ pc' = "constructed"
    /\ m_towerMap' = TheTowerOfHanoiGame(initial)
    /\ last' = [op |-> "construct", from |-> EmptyString, to |-> EmptyString,
                arg |-> <<initial>>, called |-> TRUE,
                ok |-> createInitial(TheTowerOfHanoi, PegA, initial).ok,
                fault |-> "none", emptyAccess |-> FALSE,
                before |-> m_towerMap, lastOpBefore |-> m_lastOp]
    /\ classic' = IF initial = 3 THEN 0 ELSE Off
    /\ UNCHANGED <<m_running, m_input, m_lastOp, prev, lastMove>>

MainNext ==
    \/ \E initial \in 0..MaxDisks : Construct(initial)
    \/ Next

MainSpec == MainInit /\ [][MainNext]_vars

(***************************************************************************)
(* The board built by its caller: create, create with an initializer and   *)
(* move, in any order, from the empty board.                               *)
(***************************************************************************)
MaxPushes == 2     \* an initializer pushes at most MaxPushes disks

\* The names create is called with.
CreateNames == {PegA, PegB}

\* The initializers: the lists of disks they push.
Initializers == UNION {[1..k -> 1..MaxDisks] : k \in 0..MaxPushes}

BoardInit ==
    /\ m_towerMap = TheTowerOfHanoi
    /\ m_running = FALSE
    /\ m_input = EmptyString
    /\ m_lastOp = NoLastOp
    /\ pc = "constructed"
    /\ last = NoEvent
    /\ prev = NoEvent
    /\ lastMove = NoMove
    /\ classic = Off

CallCreate(name) ==
    LET out == create(m_towerMap, name)
    IN  /\ pc = "constructed"
        /\ m_towerMap' = out.map
        /\ last' = [op |-> "create", from |-> name, to |-> EmptyString,
                    arg |-> <<>>, called |-> FALSE, ok |-> out.ok,
                    fault |-> "none", emptyAccess |-> FALSE,
                    before |-> m_towerMap, lastOpBefore |-> m_lastOp]
        /\ UNCHANGED <<m_running, m_input, m_lastOp, pc, prev, lastMove,
                       classic>>

CallCreateWith(name, disks) ==
    LET out == createWith(m_towerMap, name, disks)
    IN  /\ pc = "constructed"
        /\ m_towerMap' = out.map
        /\ last' = [op |-> "createWith", from |-> name, to |-> EmptyString,
                    arg |-> disks, called |-> out.ran, ok |-> out.ok,
                    fault |-> "none", emptyAccess |-> FALSE,
                    before |-> m_towerMap, lastOpBefore |-> m_lastOp]
        /\ UNCHANGED <<m_running, m_input, m_lastOp, pc, prev, lastMove,
                       classic>>

BoardMove(fromName, toName) ==
    LET out == move(m_towerMap, fromName, toName)
    IN  /\ pc = "constructed"
        /\ m_towerMap' = out.map
        /\ last' = [op |-> "move", from |-> fromName, to |-> toName,
                    arg |-> <<>>, called |-> TRUE, ok |-> out.ok,
                    fault |-> out.fault, emptyAccess |-> out.emptyAccess,
                    before |-> m_towerMap, lastOpBefore |-> m_lastOp]
        /\ UNCHANGED <<m_running, m_input, m_lastOp, pc, prev, lastMove,
                       classic>>

BoardNext ==
    \/ \E name \in CreateNames : CallCreate(name)
    \/ \E name \in CreateNames, disks \in Initializers :
           CallCreateWith(name, disks)
    \/ \E fromName, toName \in NameInputs : BoardMove(fromName, toName)

BoardSpec == BoardInit /\ [][BoardNext]_vars

(***************************************************************************)
(* The peg used directly: a peg made from a stack of its caller, put on a  *)
(* board under the name a (select(a) = HanoiTower(stack)), as a board      *)
(* handed to TheTowerOfHanoiGame(engine_type) may hold it; then push,      *)
(* emplace and pop on it.                                                  *)
(***************************************************************************)
\* The stacks a caller can build: any disks in any order.
Stacks == UNION {[1..k -> 1..MaxDisks] : k \in 0..MaxDisks}

PegInit ==
    /\ \E stack \in Stacks : m_towerMap = (PegA :> HanoiTowerFrom(stack))
    /\ m_running = FALSE
    /\ m_input = EmptyString
    /\ m_lastOp = NoLastOp
    /\ pc = "constructed"
    /\ last = NoEvent
    /\ prev = NoEvent
    /\ lastMove = NoMove
    /\ classic = Off

PegEvent(op, disks, ok, fault) ==
    [op |-> op, from |-> PegA, to |-> EmptyString, arg |-> disks,
     called |-> FALSE, ok |-> ok, fault |-> fault,
     emptyAccess |-> fault = "undefined",
     before |-> m_towerMap, lastOpBefore |-> m_lastOp]

PegPush(element) ==
    LET pushed == push(m_towerMap[PegA], element)
    IN  /\ pc = "constructed"
        /\ m_towerMap' = [m_towerMap EXCEPT ![PegA] = pushed.stack]
        /\ last' = PegEvent("push", <<element>>, pushed.ok, "none")
        /\ UNCHANGED <<m_running, m_input, m_lastOp, pc, prev, lastMove,
                       classic>>

PegEmplace(arg) ==
    LET pushed == emplace(m_towerMap[PegA], arg)
    IN  /\ pc = "constructed"
        /\ m_towerMap' = [m_towerMap EXCEPT ![PegA] = pushed.stack]
        /\ last' = PegEvent("emplace", <<arg>>, pushed.ok, "none")
        /\ UNCHANGED <<m_running, m_input, m_lastOp, pc, prev, lastMove,
                       classic>>

\* pop on an empty peg is undefined behaviour of std::stack::pop: the peg
\* may hold anything afterwards, and nothing is modelled after it.
PegPop ==
    /\ pc = "constructed"
    /\ IF empty(m_towerMap[PegA])
       THEN /\ \E stack \in Stacks : m_towerMap' = (PegA :> stack)
            /\ pc' = "undefined"
            /\ last' = PegEvent("pop", <<>>, FALSE, "undefined")
       ELSE /\ m_towerMap' = [m_towerMap EXCEPT ![PegA] = pop(@)]
            /\ pc' = pc
            /\ last' = PegEvent("pop", <<>>, TRUE, "none")
    /\ UNCHANGED <<m_running, m_input, m_lastOp, prev, lastMove, classic>>

PegNext ==
    \/ \E element \in 1..MaxDisks : PegPush(element)
    \/ \E arg \in 1..MaxDisks : PegEmplace(arg)
    \/ PegPop

PegSpec == PegInit /\ [][PegNext]_vars

(***************************************************************************)
(* TheTowerOfHanoiGame: parse.                                             *)
(***************************************************************************)
npos == 0     \* std::string_view::npos: no position (positions start at 1)

QuitCommand == <<"q", "u", "i", "t">>
UndoCommand == <<"u", "n", "d", "o">>

starts_with(input, ch) == Len(input) > 0 /\ input[1] = ch

\* string_view::substr(pos) and substr(pos, count), positions from 1.
substr(input, pos) == SubSeq(input, pos, Len(input))

substrCount(input, pos, count) == SubSeq(input, pos, pos + count - 1)

\* string_view::find(ch): the first position of ch, or npos.
find(input, ch) ==
    IF \E i \in 1..Len(input) : input[i] = ch
    THEN CHOOSE i \in 1..Len(input) :
             /\ input[i] = ch
             /\ \A j \in 1..(i - 1) : input[j] # ch
    ELSE npos

parse_unknownQuits(input) ==
    IF starts_with(input, "/")
    THEN LET command == substr(input, 2)
         IN  [ok |-> TRUE,
              type |-> IF command = UndoCommand THEN "undo" ELSE "quit",
              from |-> EmptyString, to |-> EmptyString]
    ELSE LET pos == find(input, ",")
         IN  IF pos # npos
             THEN [ok |-> TRUE, type |-> "move",
                   from |-> substrCount(input, 1, pos - 1),
                   to |-> substr(input, pos + 1)]
             ELSE [ok |-> FALSE, type |-> "nop",
                   from |-> EmptyString, to |-> EmptyString]

parse(input) ==
    IF starts_with(input, "/")
    THEN LET command == substr(input, 2)
         IN  [ok |-> TRUE,
              type |-> IF command = QuitCommand THEN "quit"
                       ELSE IF command = UndoCommand THEN "undo"
                       ELSE "nop",
              from |-> EmptyString, to |-> EmptyString]
    ELSE LET pos == find(input, ",")
         IN  IF pos # npos
             THEN [ok |-> TRUE, type |-> "move",
                   from |-> substrCount(input, 1, pos - 1),
                   to |-> substr(input, pos + 1)]
             ELSE [ok |-> FALSE, type |-> "nop",
                   from |-> EmptyString, to |-> EmptyString]

\* The lines the user types.
MoveLine(fromName, toName) == fromName \o <<",">> \o toName

Lines ==
    {<<"/">> \o QuitCommand, <<"/">> \o UndoCommand}
    \cup {MoveLine(f, t) : f, t \in NameInputs}
    \cup {EmptyString,
          <<"a", "b">>,                   \* neither / nor comma
          UndoCommand,                    \* undo without the /
          <<"/">>,
          <<"/", "a", ",", "b">>,         \* / first, with a comma
          <<"/", "u", "n", "d", "o", " ">>,
          <<"a", ",", "b", ",", "c">>,    \* to is "b,c"
          <<",", "b">>}                   \* from is empty

(***************************************************************************)
(* TheTowerOfHanoiGame::run: the cases of the switch.                      *)
(***************************************************************************)
\* What a case did: the board and move record afterwards, and the call of
\* move it made, if any.
CaseOutcome(map, lastOp, called, fromName, toName, out) ==
    [map |-> map, lastOp |-> lastOp, called |-> called,
     from |-> fromName, to |-> toName,
     ok |-> out.ok, fault |-> out.fault, emptyAccess |-> out.emptyAccess]

NotCalled(map) == MoveOutcome(map, FALSE, "none", FALSE)

caseMove_recordAlways(map, lastOp, result) ==
    IF has(map, result.from) /\ has(map, result.to)
    THEN LET out == move(map, result.from, result.to)
         IN  CaseOutcome(out.map,
                         [command |-> "move", from |-> result.from,
                          to |-> result.to],
                         TRUE, result.from, result.to, out)
    ELSE CaseOutcome(map, lastOp, FALSE, result.from, result.to, NotCalled(map))

caseMove_swapped(map, lastOp, result) ==
    IF has(map, result.from) /\ has(map, result.to)
    THEN LET out == move(map, result.from, result.to)
         IN  CaseOutcome(out.map,
                         IF out.ok
                         THEN [command |-> "move", from |-> result.to,
                               to |-> result.from]
                         ELSE lastOp,
                         TRUE, result.from, result.to, out)
    ELSE CaseOutcome(map, lastOp, FALSE, result.from, result.to, NotCalled(map))

caseMove_noHasCheck(map, lastOp, result) ==
    LET out == move(map, result.from, result.to)
    IN  CaseOutcome(out.map,
                    IF out.ok
                    THEN [command |-> "move", from |-> result.from,
                          to |-> result.to]
                    ELSE lastOp,
                    TRUE, result.from, result.to, out)

\* case command_type::move
caseMove(map, lastOp, result) ==
    IF has(map, result.from) /\ has(map, result.to)
    THEN LET out == move(map, result.from, result.to)
         IN  CaseOutcome(out.map,
                         IF out.ok
                         THEN [command |-> "move", from |-> result.from,
                               to |-> result.to]
                         ELSE lastOp,
                         TRUE, result.from, result.to, out)
    ELSE CaseOutcome(map, lastOp, FALSE, result.from, result.to, NotCalled(map))

caseUndo_sameDirection(map, lastOp) ==
    IF lastOp.command = "move"
    THEN LET out == move(map, lastOp.from, lastOp.to)
         IN  CaseOutcome(out.map,
                         IF out.ok
                         THEN [command |-> "move", from |-> lastOp.to,
                               to |-> lastOp.from]
                         ELSE lastOp,
                         TRUE, lastOp.from, lastOp.to, out)
    ELSE CaseOutcome(map, lastOp, FALSE, EmptyString, EmptyString, NotCalled(map))

caseUndo_noSwap(map, lastOp) ==
    IF lastOp.command = "move"
    THEN LET out == move(map, lastOp.to, lastOp.from)
         IN  CaseOutcome(out.map, lastOp, TRUE, lastOp.to, lastOp.from, out)
    ELSE CaseOutcome(map, lastOp, FALSE, EmptyString, EmptyString, NotCalled(map))

\* case command_type::undo
caseUndo(map, lastOp) ==
    IF lastOp.command = "move"
    THEN LET out == move(map, lastOp.to, lastOp.from)
         IN  CaseOutcome(out.map,
                         IF out.ok
                         THEN [command |-> "move", from |-> lastOp.to,
                               to |-> lastOp.from]
                         ELSE lastOp,
                         TRUE, lastOp.to, lastOp.from, out)
    ELSE CaseOutcome(map, lastOp, FALSE, EmptyString, EmptyString, NotCalled(map))

\* The history entry of a loop iteration.
Iteration(op, done) ==
    [op |-> op, from |-> done.from, to |-> done.to, arg |-> <<>>,
     called |-> done.called,
     ok |-> done.ok, fault |-> done.fault, emptyAccess |-> done.emptyAccess,
     before |-> m_towerMap, lastOpBefore |-> m_lastOp]

Nothing == CaseOutcome(m_towerMap, m_lastOp, FALSE, EmptyString, EmptyString,
                       NotCalled(m_towerMap))

\* An exception leaving move is caught nowhere: the program is terminated.
AfterCall(done) == IF done.fault # "none" THEN "terminated" ELSE pc

(***************************************************************************)
(* TheTowerOfHanoiGame::run: the loop.                                     *)
(***************************************************************************)
\* lastMove after a line that is neither a successful move command nor
\* /undo.
OtherLine == IF lastMove.exists THEN [lastMove EXCEPT !.others = TRUE] ELSE lastMove

RunStart ==
    /\ pc = "constructed"
    /\ pc' = "running"
    /\ m_running' = TRUE
    /\ UNCHANGED <<m_towerMap, m_input, m_lastOp, last, prev, lastMove,
                   classic>>

\* std::getline failed (end of input): the line is erased and the loop
\* goes round.
ReadFail ==
    /\ pc = "running" /\ m_running
    /\ m_input' = EmptyString
    /\ last' = Iteration("readfail", Nothing)
    /\ lastMove' = OtherLine
    /\ UNCHANGED <<m_towerMap, m_running, m_lastOp, pc, prev, classic>>

RunQuit(line) ==
    /\ pc = "running" /\ m_running
    /\ parse(line).ok /\ parse(line).type = "quit"
    /\ m_input' = line
    /\ m_running' = FALSE
    /\ last' = Iteration("quit", Nothing)
    /\ UNCHANGED <<m_towerMap, m_lastOp, pc, prev, lastMove, classic>>

RunMove(line) ==
    /\ pc = "running" /\ m_running
    /\ parse(line).ok /\ parse(line).type = "move"
    /\ LET done == caseMove(m_towerMap, m_lastOp, parse(line))
       IN  /\ m_input' = line
           /\ m_towerMap' = done.map
           /\ m_lastOp' = done.lastOp
           /\ pc' = AfterCall(done)
           /\ last' = Iteration("move", done)
           /\ lastMove' = IF done.called /\ done.ok
                          THEN [exists |-> TRUE, from |-> done.from,
                                to |-> done.to, before |-> m_towerMap,
                                after |-> done.map, undos |-> 0,
                                others |-> FALSE]
                          ELSE OtherLine
    /\ UNCHANGED <<m_running, prev, classic>>

RunUndo(line) ==
    /\ pc = "running" /\ m_running
    /\ parse(line).ok /\ parse(line).type = "undo"
    /\ lastMove.exists => lastMove.undos < MaxUndoRun
    /\ LET done == caseUndo(m_towerMap, m_lastOp)
       IN  /\ m_input' = line
           /\ m_towerMap' = done.map
           /\ m_lastOp' = done.lastOp
           /\ pc' = AfterCall(done)
           /\ last' = Iteration("undo", done)
           /\ lastMove' = IF lastMove.exists
                          THEN [lastMove EXCEPT !.undos = @ + 1]
                          ELSE lastMove
    /\ UNCHANGED <<m_running, prev, classic>>

\* A line parse rejects, or a / command that is neither quit nor undo.
RunNop(line) ==
    /\ pc = "running" /\ m_running
    /\ ~parse(line).ok \/ parse(line).type = "nop"
    /\ m_input' = line
    /\ last' = Iteration("nop", Nothing)
    /\ lastMove' = OtherLine
    /\ UNCHANGED <<m_towerMap, m_running, m_lastOp, pc, prev, classic>>

\* while (m_running) is false: run returns.
RunReturn ==
    /\ pc = "running" /\ ~m_running
    /\ pc' = "returned"
    /\ UNCHANGED <<m_towerMap, m_running, m_input, m_lastOp, last, prev, lastMove,
                   classic>>

GameNext ==
    \/ RunStart
    \/ ReadFail
    \/ \E line \in Lines : RunQuit(line)
    \/ \E line \in Lines : RunMove(line)
    \/ \E line \in Lines : RunUndo(line)
    \/ \E line \in Lines : RunNop(line)
    \/ RunReturn

GameSpec == Init /\ [][GameNext]_vars

(***************************************************************************)
(* Vocabulary of the properties.                                           *)
(***************************************************************************)
\* Strictly increasing from top to base: every disk is larger than the one
\* stored above it.
SizeOrdered(s) == \A i \in 1..(Len(s) - 1) : s[i] > s[i + 1]

\* The places (peg, position) of a board that hold disk d.
Places(map, d) ==
    {p \in UNION {{<<name, i>> : i \in 1..Len(map[name])} : name \in DOMAIN map} :
        map[p[1]][p[2]] = d}

DisksOn(map) ==
    UNION {{map[name][i] : i \in 1..Len(map[name])} : name \in DOMAIN map}

RECURSIVE TotalSize(_, _)
TotalSize(map, names) ==
    IF names = {} THEN 0
    ELSE LET name == CHOOSE x \in names : TRUE
         IN  Len(map[name]) + TotalSize(map, names \ {name})

\* last is a call move(from, to) with distinct names of pegs of the board.
DistinctMove ==
    /\ last.op = "move"
    /\ last.called
    /\ last.from # last.to
    /\ last.from \in DOMAIN last.before
    /\ last.to \in DOMAIN last.before

\* The move is legal on the board it was called on.
LegalBefore ==
    /\ Len(last.before[last.from]) > 0
    /\ \/ Len(last.before[last.to]) = 0
       \/ last.before[last.to][Len(last.before[last.to])]
              > last.before[last.from][Len(last.before[last.from])]

\* Exactly the top disk of from went on top of to.
OneDiskMoved ==
    LET f0 == last.before[last.from]
        t0 == last.before[last.to]
        f1 == m_towerMap[last.from]
        t1 == m_towerMap[last.to]
    IN  /\ Len(f0) > 0
        /\ Len(f1) = Len(f0) - 1
        /\ Len(t1) = Len(t0) + 1
        /\ \A i \in 1..Len(f1) : f1[i] = f0[i]
        /\ \A i \in 1..Len(t0) : t1[i] = t0[i]
        /\ t1[Len(t1)] = f0[Len(f0)]
        /\ DOMAIN m_towerMap = DOMAIN last.before
        /\ \A name \in DOMAIN m_towerMap \ {last.from, last.to} :
               m_towerMap[name] = last.before[name]

(***************************************************************************)
(* The board: properties of move.                                          *)
(***************************************************************************)
\* C1: after every call of move, successful or failing, every peg is
\* strictly increasing in size from top to base.
C1_SizeInvariant ==
    \A name \in DOMAIN m_towerMap : SizeOrdered(m_towerMap[name])

\* A disk was moved onto a larger disk, and a second peg holds two disks.
C1_Witness ==
    /\ DistinctMove /\ last.ok
    /\ Len(m_towerMap[last.to]) >= 2
    /\ prev.op = "move" /\ ~prev.ok /\ prev.fault = "none"

\* C2: a call of move on existing pegs leaves the multiset of disks over all
\* pegs as it was, and each disk 1..n is on exactly one peg, n being the
\* number of disks on the board.
C2_Conservation ==
    /\ \A d \in 1..TotalSize(m_towerMap, DOMAIN m_towerMap) :
           Cardinality(Places(m_towerMap, d)) = 1
    /\ (last.op = "move" /\ last.called
        /\ last.from \in DOMAIN last.before /\ last.to \in DOMAIN last.before)
       => \A d \in DisksOn(m_towerMap) \cup DisksOn(last.before) :
              Cardinality(Places(m_towerMap, d))
                  = Cardinality(Places(last.before, d))

\* A disk has just moved between two pegs of a board of three disks.
C2_Witness ==
    /\ DistinctMove /\ last.ok
    /\ TotalSize(m_towerMap, DOMAIN m_towerMap) = 3
    /\ Len(m_towerMap[PegA]) = 1

\* C3: a call move(from, to) on distinct existing pegs either returns true
\* with exactly one disk moved from from to to, or returns false with every
\* peg as before.
C3_Atomic ==
    DistinctMove =>
        /\ last.fault = "none"
        /\ \/ last.ok /\ OneDiskMoved
           \/ ~last.ok /\ m_towerMap = last.before

\* A rejected move from a peg of two disks onto a non-empty peg.
C3_Witness ==
    /\ DistinctMove /\ ~last.ok
    /\ Len(last.before[last.from]) >= 2
    /\ Len(last.before[last.to]) >= 1

\* C4: a legal move between distinct existing pegs returns true; the former
\* top of from is the new top of to, from is its former content without it
\* and the disks of to below it are unchanged.
C4_LegalMove ==
    (DistinctMove /\ LegalBefore) =>
        /\ last.ok
        /\ m_towerMap[last.to]
               = Append(last.before[last.to],
                        last.before[last.from][Len(last.before[last.from])])
        /\ Append(m_towerMap[last.from],
                  last.before[last.from][Len(last.before[last.from])])
               = last.before[last.from]

\* A legal move from a peg of two disks onto a larger disk.
C4_Witness ==
    /\ DistinctMove /\ LegalBefore
    /\ Len(last.before[last.from]) >= 2
    /\ Len(last.before[last.to]) >= 1

C6_EmptySource ==
    (DistinctMove /\ Len(last.before[last.from]) = 0) =>
        /\ ~last.ok
        /\ last.fault = "none"
        /\ ~last.emptyAccess
        /\ m_towerMap = last.before

\* A move from an empty peg to a non-empty one, and one to an empty one.
C6_Witness ==
    /\ DistinctMove /\ Len(last.before[last.from]) = 0
    /\ Len(last.before[last.to]) > 0
    /\ prev.op = "move" /\ prev.from # prev.to
    /\ prev.from \in DOMAIN prev.before /\ prev.to \in DOMAIN prev.before
    /\ Len(prev.before[prev.from]) = 0 /\ Len(prev.before[prev.to]) = 0

\* C7: move(x, x) returns true and changes no peg, for every name x.
C7_SelfMove ==
    (last.op = "move" /\ last.called /\ last.from = last.to) =>
        /\ last.ok
        /\ last.fault = "none"
        /\ m_towerMap = last.before

\* A self-move on a non-empty peg, after one on a missing name.
C7_Witness ==
    /\ last.op = "move" /\ last.from = last.to
    /\ last.from \in DOMAIN m_towerMap
    /\ Len(m_towerMap[last.from]) > 0
    /\ prev.op = "move" /\ prev.from = prev.to
    /\ prev.from \notin DOMAIN m_towerMap

\* last is the reverse of the successful move prev between distinct pegs.
ReversePair ==
    /\ prev.op = "move" /\ prev.called /\ prev.ok
    /\ prev.from # prev.to
    /\ last.op = "move" /\ last.called
    /\ last.from = prev.to /\ last.to = prev.from

\* C8: after a successful move(A, B) between distinct pegs the immediately
\* following move(B, A) returns true and restores every peg.
C8_ReverseRestores ==
    ReversePair => (last.ok /\ m_towerMap = prev.before)

\* The reversed move had put a disk on a non-empty peg.
C8_Witness ==
    /\ ReversePair
    /\ Len(prev.before[prev.to]) > 0
    /\ Len(prev.before[prev.from]) >= 2

(***************************************************************************)
(* The controller loop: properties of /undo.                               *)
(***************************************************************************)
MoveRecord(fromName, toName) ==
    [command |-> "move", from |-> fromName, to |-> toName]

\* C9: the first /undo after the last successful move command from,to,
\* whatever failed move commands and ignored lines came in between, calls
\* move(to, from) and restores the board that move command was given.
C9_UndoRestores ==
    (last.op = "undo" /\ lastMove.exists /\ lastMove.undos = 1) =>
        /\ last.called
        /\ last.from = lastMove.to /\ last.to = lastMove.from
        /\ last.ok
        /\ m_towerMap = lastMove.before

\* The /undo of a move onto a non-empty peg, other lines in between.
C9_Witness ==
    /\ last.op = "undo" /\ lastMove.exists /\ lastMove.undos = 1
    /\ lastMove.others
    /\ lastMove.from # lastMove.to
    /\ Len(lastMove.before[lastMove.to]) > 0

\* C10: a successful /undo reverses the move record, so the /undo commands
\* after a successful move command alternate between the board before and
\* the board after that command: after an even number the board is the one
\* after the move and the record is (from, to), after an odd number the
\* board is the one before it and the record is (to, from).
C10_UndoAlternates ==
    lastMove.exists =>
        IF lastMove.undos % 2 = 0
        THEN /\ m_towerMap = lastMove.after
             /\ m_lastOp = MoveRecord(lastMove.from, lastMove.to)
        ELSE /\ m_towerMap = lastMove.before
             /\ m_lastOp = MoveRecord(lastMove.to, lastMove.from)

\* Two /undo commands in a row after a move that was not the first one.
C10_Witness ==
    /\ last.op = "undo" /\ last.lastOpBefore.command = "move"
    /\ lastMove.exists /\ lastMove.undos = 2 /\ ~lastMove.others
    /\ lastMove.from # lastMove.to
    /\ Len(lastMove.before[PegB]) > 0
    /\ Len(lastMove.before[PegC]) > 0

(***************************************************************************)
(* The controller loop: the move record.                                   *)
(***************************************************************************)
\* last is a loop iteration that read a line or failed to.
LoopIteration == last.op \in {"quit", "move", "undo", "nop", "readfail"}

\* C11: the move record changes only when a call of move returned true. A
\* successful move command sets it to the names of the command (a self-move
\* included), a successful /undo reverses it, every other line leaves it as
\* it was; before the first successful move command it is empty and /undo
\* changes neither board nor record.
C11_RecordFrame ==
    /\ LoopIteration =>
           IF last.called /\ last.ok
           THEN IF last.op = "move"
                THEN m_lastOp = MoveRecord(last.from, last.to)
                ELSE /\ last.op = "undo"
                     /\ last.lastOpBefore.command = "move"
                     /\ m_lastOp = MoveRecord(last.lastOpBefore.to,
                                              last.lastOpBefore.from)
           ELSE m_lastOp = last.lastOpBefore
    /\ ~lastMove.exists =>
           /\ m_lastOp = NoLastOp
           /\ last.op = "undo" => (~last.called /\ m_towerMap = last.before)

\* A move command was rejected while a record of an earlier self-move
\* existed.
C11_Witness ==
    /\ last.op = "move" /\ last.called /\ ~last.ok
    /\ last.lastOpBefore.command = "move"
    /\ last.lastOpBefore.from = last.lastOpBefore.to
    /\ m_lastOp = last.lastOpBefore

(***************************************************************************)
(* The board built by its caller: properties of create and of move on      *)
(* missing names.                                                          *)
(***************************************************************************)
\* C12: create(name) with a name the board has returns ok = false and
\* leaves the board as it was: the peg keeps its disks, no peg is added.
C12_DuplicateCreate ==
    (last.op = "create" /\ last.from \in DOMAIN last.before) =>
        /\ ~last.ok
        /\ DOMAIN m_towerMap = DOMAIN last.before
        /\ \A name \in DOMAIN last.before :
               m_towerMap[name] = last.before[name]

\* create called again on a peg that holds disks.
C12_Witness ==
    /\ last.op = "create" /\ last.from \in DOMAIN last.before
    /\ Len(last.before[last.from]) >= 2

\* The longest beginning of a list of disks that a peg accepts: k disks.
Accepted(disks, k) ==
    /\ k \in 0..Len(disks)
    /\ SizeOrdered(SubSeq(disks, 1, k))
    /\ k < Len(disks) => ~SizeOrdered(SubSeq(disks, 1, k + 1))

\* C13: create(name, onSuccess) with a new name inserts the peg and runs
\* the initializer; the peg stays on the board with the disks pushed before
\* the first failure, and ok is the initializer's result. With a name the
\* board has, the initializer is not run, ok = false and nothing changes.
C13_CreateWithInitializer ==
    last.op = "createWith" =>
        IF last.from \in DOMAIN last.before
        THEN /\ ~last.called
             /\ ~last.ok
             /\ m_towerMap = last.before
        ELSE /\ last.called
             /\ DOMAIN m_towerMap = DOMAIN last.before \cup {last.from}
             /\ \A name \in DOMAIN last.before :
                    m_towerMap[name] = last.before[name]
             /\ \E k \in 0..Len(last.arg) :
                    /\ Accepted(last.arg, k)
                    /\ m_towerMap[last.from] = SubSeq(last.arg, 1, k)
                    /\ last.ok <=> (k = Len(last.arg))

\* The initializer failed at its second disk: the peg is there, one disk on
\* it.
C13_Witness ==
    /\ last.op = "createWith" /\ last.from \notin DOMAIN last.before
    /\ ~last.ok
    /\ last.from \in DOMAIN m_towerMap
    /\ Len(m_towerMap[last.from]) = 1

\* last is a call move(from, to) with distinct names, one of them at least
\* not a peg of the board.
MissingMove ==
    /\ last.op = "move" /\ last.called
    /\ last.from # last.to
    /\ \/ last.from \notin DOMAIN last.before
       \/ last.to \notin DOMAIN last.before

\* C16: move(from, to) with distinct names, one of them missing, ends in
\* the lookup error of select and not in a result; no disk moves and no peg
\* is created under the missing name.
C16_MissingPeg ==
    MissingMove =>
        /\ last.fault = "out_of_range"
        /\ DOMAIN m_towerMap = DOMAIN last.before
        /\ \A name \in DOMAIN last.before :
               m_towerMap[name] = last.before[name]

\* from holds disks and only to is missing.
C16_Witness ==
    /\ MissingMove
    /\ last.from \in DOMAIN last.before
    /\ Len(last.before[last.from]) > 0
    /\ last.to \notin DOMAIN m_towerMap

(***************************************************************************)
(* Construction and the classic solution.                                  *)
(***************************************************************************)
\* C14: TheTowerOfHanoiGame(n) creates exactly the pegs a, b and c; every
\* push of the initializer succeeds; peg a holds n, n-1, ..., 1 from base
\* to top, b and c are empty, and every peg is size-ordered.
C14_InitialBoard ==
    last.op = "construct" =>
        LET n == last.arg[1]
        IN  /\ DOMAIN m_towerMap = {PegA, PegB, PegC}
            /\ last.ok
            /\ Len(m_towerMap[PegA]) = n
            /\ \A i \in 1..n : m_towerMap[PegA][i] = n - i + 1
            /\ m_towerMap[PegB] = <<>>
            /\ m_towerMap[PegC] = <<>>
            /\ \A name \in DOMAIN m_towerMap : SizeOrdered(m_towerMap[name])

\* A board of at least two disks was constructed.
C14_Witness ==
    /\ last.op = "construct"
    /\ last.arg[1] >= 2
    /\ Len(m_towerMap[PegA]) >= 2

\* C15: on the board of three disks every move of the classic solution
\* a->c, a->b, c->b, a->c, b->a, b->c, a->c returns true, and after the
\* seventh pegs a and b are empty and peg c holds 3, 2, 1 from base to top.
C15_ClassicSolution ==
    /\ classic >= 1 => (last.op = "move" /\ last.ok)
    /\ classic = Len(ClassicMoves) =>
           /\ m_towerMap[PegA] = <<>>
           /\ m_towerMap[PegB] = <<>>
           /\ m_towerMap[PegC] = <<3, 2, 1>>

\* All seven moves were made.
C15_Witness ==
    /\ classic = 7
    /\ last.op = "move" /\ last.from = PegA /\ last.to = PegC
    /\ Len(m_towerMap[PegC]) = 3

(***************************************************************************)
(* The controller loop: the session.                                       *)
(***************************************************************************)
QuitLine == <<"/", "q", "u", "i", "t">>
UndoLine == <<"/", "u", "n", "d", "o">>

\* The line read last is a move command naming two pegs of the board.
MoveOnPegs ==
    \E f, t \in DOMAIN last.before : m_input = f \o <<",">> \o t

\* C17: the session ends exactly when the line /quit is processed; every
\* other line leaves it running, and a line that is neither a move command
\* on two existing pegs nor /undo leaves board and move record unchanged.
C17_QuitOnly ==
    /\ pc \in {"running", "returned"} => (m_running <=> m_input # QuitLine)
    /\ pc = "returned" => m_input = QuitLine
    /\ (LoopIteration /\ m_input # UndoLine /\ ~MoveOnPegs) =>
           /\ m_towerMap = last.before
           /\ m_lastOp = last.lastOpBefore

\* A / command with a comma in it was ignored while a record existed.
C17_Witness ==
    /\ m_input = <<"/", "a", ",", "b">>
    /\ last.op = "nop"
    /\ m_running
    /\ m_lastOp.command = "move" /\ m_lastOp.from # m_lastOp.to

\* C18: whenever a move record (from, to) exists, the reverse move is
\* legal: for from # to, peg to is non-empty and peg from is empty or has a
\* larger top; so the move called by /undo always returns true.
C18_UndoNeverRejected ==
    /\ (m_lastOp.command = "move" /\ m_lastOp.from # m_lastOp.to) =>
           LET from == m_towerMap[m_lastOp.from]
               to == m_towerMap[m_lastOp.to]
           IN  /\ Len(to) > 0
               /\ Len(from) = 0 \/ from[Len(from)] > to[Len(to)]
    /\ (last.op = "undo" /\ last.called) => last.ok

\* A second /undo in a row succeeded, rejected lines before it.
C18_Witness ==
    /\ last.op = "undo" /\ last.called /\ last.ok
    /\ last.from # last.to
    /\ lastMove.undos >= 2 /\ lastMove.others

\* C19: in the controller loop select is never reached with a name that is
\* no peg, top() and pop() never with an empty peg, and the pegs stay a, b
\* and c: the names of every call of move, and of the record /undo will
\* use, are pegs of the board.
C19_NoPreconditionViolation ==
    /\ last.fault = "none"
    /\ ~last.emptyAccess
    /\ pc # "terminated"
    /\ DOMAIN m_towerMap = {PegA, PegB, PegC}
    /\ last.called =>
           (last.from \in DOMAIN last.before /\ last.to \in DOMAIN last.before)
    /\ m_lastOp.command = "move" =>
           (m_lastOp.from \in DOMAIN m_towerMap
            /\ m_lastOp.to \in DOMAIN m_towerMap)

\* A move command onto a missing peg was read and no call was made.
C19_Witness ==
    /\ last.op = "move" /\ ~last.called
    /\ last.from = PegA /\ last.to = PegD
    /\ Len(m_towerMap[PegA]) > 0
    /\ m_lastOp.command = "move"

(***************************************************************************)
(* The peg: the size invariant from creation on.                           *)
(***************************************************************************)
\* C20: every peg is size-ordered from the moment it is created, empty or
\* from an existing stack, and stays so under push, emplace and pop (as
\* long as pop is not called on an empty peg).
C20_PegAlwaysOrdered ==
    pc # "undefined" =>
        \A name \in DOMAIN m_towerMap : SizeOrdered(m_towerMap[name])

\* C20, the part the code keeps: push and emplace add a disk only to an
\* empty peg or on a larger top (an equal disk is refused), otherwise they
\* change nothing; pop removes the top; so a size-ordered peg stays
\* size-ordered.
C20_MutationKeepsOrder ==
    (last.op \in {"push", "emplace", "pop"} /\ last.fault = "none") =>
        LET s0 == last.before[PegA]
            s1 == m_towerMap[PegA]
        IN  /\ last.op \in {"push", "emplace"} =>
                IF Len(s0) = 0 \/ s0[Len(s0)] > last.arg[1]
                THEN last.ok /\ s1 = Append(s0, last.arg[1])
                ELSE ~last.ok /\ s1 = s0
            /\ last.op = "pop" => Append(s1, s0[Len(s0)]) = s0
            /\ SizeOrdered(s0) => SizeOrdered(s1)

====
